---- MODULE Spec2Model ----
(***************************************************************************)
(* Model of editors/sublime/temper.py: the two-tier snippet cache, its     *)
(* background refresh workers, the merged view, the snippet-run and the    *)
(* snippet-insertion command sessions, and the command that runs the       *)
(* current file as a snippet behind its snippets-directory gate.           *)
(***************************************************************************)
EXTENDS Integers, Sequences, FiniteSets, TLC

\* ------------------------------------------------------------------ bounds
\* Refresh worker threads that may be started in one behaviour.
MaxRefresh == 2
\* Longest "results" array the tool prints for list / search.
MaxResults == 2
\* Longest tier drawn as an input of the merge (SpecMerge).
MaxTier == 3
\* Command sessions that may be launched in one behaviour (SpecRun).
MaxSessions == 2

\* The text the view holds at first: two lines.
InitBuffer == <<"x", "\n", "y">>

\* ------------------------------------------------------------- data model
\* Slugs of the records the merge is tried on, and of the records the tool
\* prints in a list / search reply (a reply may repeat a slug).
Slugs == {"a", "b"}
ToolSlugs == {"a"}
Titles == {"t"}

\* A record as the tool prints it, and as the cache keeps it (tagged).
RawRecords == [slug : ToolSlugs, title : Titles]
TierRecords(is_local) == [slug : Slugs, title : Titles, isLocal : {is_local}]
Tag(r, is_local) ==
    [k \in DOMAIN r \cup {"isLocal"} |-> IF k = "isLocal" THEN is_local ELSE r[k]]

RECURSIVE SeqsUpTo(_, _)
SeqsUpTo(S, n) ==
    IF n = 0 THEN {<<>>}
    ELSE LET shorter == SeqsUpTo(S, n - 1)
         IN shorter \cup {Append(s, x) : s \in {t \in shorter : Len(t) = n - 1}, x \in S}

SlugsOf(tier) == {tier[i].slug : i \in DOMAIN tier}

\* ------------------------------------------------- the tool's invocations
\* What one spawn of the tool does: the executable is missing, the spawn or
\* the IO faults, or the process ends and its trimmed stdout is `text`.
\* The text of a list / search reply is kept by what json.loads makes of it.
TextEmpty == [t |-> "empty"]
TextNotJson == [t |-> "notjson"]
TextNonObject == [t |-> "nonobject"]
TextNoResults == [t |-> "object", results |-> "absent"]
TextBadResults == [t |-> "object", results |-> "notrecords"]
TextResults(items) == [t |-> "object", results |-> "records", items |-> items]

ToolResults == SeqsUpTo(RawRecords, MaxResults)

ProcNotFound == [kind |-> "notfound"]
ProcFault == [kind |-> "fault"]
ProcStdout(text) == [kind |-> "stdout", text |-> text]

ListTexts ==
    {TextEmpty, TextNotJson, TextNonObject, TextNoResults, TextBadResults}
        \cup {TextResults(items) : items \in ToolResults}

ListOutcomes == {ProcNotFound, ProcFault} \cup {ProcStdout(x) : x \in ListTexts}

\* run_temper: None on FileNotFoundError and on any other exception (each
\* after a blocking sublime.error_message), else the trimmed stdout.
run_temper(proc) ==
    IF proc.kind = "stdout"
    THEN [none |-> FALSE, text |-> proc.text, dialog |-> FALSE]
    ELSE [none |-> TRUE, text |-> TextEmpty, dialog |-> TRUE]

\* json.loads: ValueError on text that is no JSON document.
json_loads(text) ==
    [ok |-> text.t \in {"nonobject", "object", "info", "config"}, value |-> text]

\* Variants of the shared body, for comparison: one in which a spawn that
\* gave no output raises, and one that keeps the first record of each slug.
tagged_results_abort(output, is_local) ==
    IF output.none THEN [raised |-> TRUE, value |-> <<>>]
    ELSE IF output.text.t = "empty" THEN [raised |-> FALSE, value |-> <<>>]
    ELSE LET data == json_loads(output.text)
         IN IF ~data.ok THEN [raised |-> FALSE, value |-> <<>>]
            ELSE IF data.value.t # "object" THEN [raised |-> TRUE, value |-> <<>>]
            ELSE IF data.value.results = "absent" THEN [raised |-> FALSE, value |-> <<>>]
            ELSE IF data.value.results = "notrecords" THEN [raised |-> TRUE, value |-> <<>>]
            ELSE [raised |-> FALSE,
                  value |-> [i \in DOMAIN data.value.items |->
                                Tag(data.value.items[i], is_local)]]

RECURSIVE FirstOfEachSlug(_, _)
FirstOfEachSlug(items, seen) ==
    IF items = <<>> THEN <<>>
    ELSE IF Head(items).slug \in seen THEN FirstOfEachSlug(Tail(items), seen)
    ELSE <<Head(items)>> \o FirstOfEachSlug(Tail(items), seen \cup {Head(items).slug})

tagged_results_unique(output, is_local) ==
    IF output.none \/ output.text.t = "empty"
    THEN [raised |-> FALSE, value |-> <<>>]
    ELSE LET data == json_loads(output.text)
         IN IF ~data.ok THEN [raised |-> FALSE, value |-> <<>>]
            ELSE IF data.value.t # "object" THEN [raised |-> TRUE, value |-> <<>>]
            ELSE IF data.value.results = "absent" THEN [raised |-> FALSE, value |-> <<>>]
            ELSE IF data.value.results = "notrecords" THEN [raised |-> TRUE, value |-> <<>>]
            ELSE LET kept == FirstOfEachSlug(data.value.items, {})
                 IN [raised |-> FALSE,
                     value |-> [i \in DOMAIN kept |-> Tag(kept[i], is_local)]]

\* The body shared by list_snippets and search_snippets after the spawn:
\* [] when there is no output or it does not decode; data.get raises
\* AttributeError on a document that is no object and r["isLocal"] = ... raises
\* TypeError on results that are no records; neither is caught.
tagged_results(output, is_local) ==
    IF output.none \/ output.text.t = "empty"
    THEN [raised |-> FALSE, value |-> <<>>]
    ELSE LET data == json_loads(output.text)
         IN IF ~data.ok THEN [raised |-> FALSE, value |-> <<>>]
            ELSE IF data.value.t # "object" THEN [raised |-> TRUE, value |-> <<>>]
            ELSE IF data.value.results = "absent" THEN [raised |-> FALSE, value |-> <<>>]
            ELSE IF data.value.results = "notrecords" THEN [raised |-> TRUE, value |-> <<>>]
            ELSE [raised |-> FALSE,
                  value |-> [i \in DOMAIN data.value.items |->
                                Tag(data.value.items[i], is_local)]]

list_snippets(proc) == tagged_results(run_temper(proc), TRUE)

search_snippets(proc) == tagged_results(run_temper(proc), FALSE)

\* ------------------------------------------------------------ run_snippet
\* The texts a run prints (success true) and the payloads of its reply.
Outputs == {<<"o">>, <<"p", "q">>}
RunPayloads ==
    {[success |-> TRUE, output |-> o, error |-> "absent"] : o \in Outputs}
        \cup {[success |-> FALSE, output |-> <<>>, error |-> e] :
                 e \in {"absent", "tool error"}}

\* A reply that is one payload; a payload on the first line with text
\* leaked after it; text that opens with a brace and whose first line does
\* not decode; and the texts of a list reply that are no payload.
TextPayload(p) == [t |-> "object", payload |-> p]
TextLeaky(p) == [t |-> "leaky", payload |-> p]
TextBrace == [t |-> "brace"]
RunTexts ==
    {TextEmpty, TextNotJson, TextNonObject, TextBrace}
        \cup {TextPayload(p) : p \in RunPayloads}
        \cup {TextLeaky(p) : p \in RunPayloads}
RunOutcomes == {ProcNotFound, ProcFault} \cup {ProcStdout(x) : x \in RunTexts}

\* A reply given chunk by chunk: a chunk is one character or the text of a
\* whole JSON document.
TextRaw(raw) == [t |-> "raw", raw |-> raw]

RunResult(dict, success, output, error) ==
    [dict |-> dict, success |-> success, output |-> output, error |-> error,
     shown |-> <<>>]
OfPayload(p) == RunResult(TRUE, p.success, p.output, p.error)

\* The JSON documents of the model and what json.loads makes of each; only
\* those that open with "{" decode to a dict.
JsonObjects ==
    {"{\"success\":true,\"output\":\"o\"}", "{\"success\":true,\"output\":\"pq\"}",
     "{\"success\":false,\"output\":\"\"}",
     "{\"success\":false,\"output\":\"\",\"error\":\"tool error\"}"}
JsonDocuments == JsonObjects \cup {"[1]"}
DocValue(doc) ==
    CASE doc = "{\"success\":true,\"output\":\"o\"}" ->
             OfPayload([success |-> TRUE, output |-> <<"o">>, error |-> "absent"])
      [] doc = "{\"success\":true,\"output\":\"pq\"}" ->
             OfPayload([success |-> TRUE, output |-> <<"p", "q">>, error |-> "absent"])
      [] doc = "{\"success\":false,\"output\":\"\"}" ->
             OfPayload([success |-> FALSE, output |-> <<>>, error |-> "absent"])
      [] doc = "{\"success\":false,\"output\":\"\",\"error\":\"tool error\"}" ->
             OfPayload([success |-> FALSE, output |-> <<>>, error |-> "tool error"])
      [] OTHER -> RunResult(FALSE, FALSE, <<>>, "absent")
PayloadText(p) == CHOOSE doc \in JsonObjects : DocValue(doc) = OfPayload(p)

\* The characters of Python's output[:200].
ErrorPrefix == 200

Repeat(ch, n) == [i \in 1 .. n |-> ch]

\* The trimmed stdout of a reply, chunk by chunk.
RawText(text) ==
    CASE text.t = "raw" -> text.raw
      [] text.t = "empty" -> <<>>
      [] text.t = "nonobject" -> <<"[1]">>
      [] text.t = "brace" -> <<"{", "?">>
      [] text.t = "object" -> <<PayloadText(text.payload)>>
      [] text.t = "leaky" -> <<PayloadText(text.payload), "\n", "?">>
      [] OTHER -> <<"?">>

\* json.loads on the chunks of a text: ValueError unless the text is one
\* JSON document.
json_loads_raw(raw) ==
    IF Len(raw) = 1 /\ raw[1] \in JsonDocuments
    THEN [ok |-> TRUE, value |-> DocValue(raw[1])]
    ELSE [ok |-> FALSE, value |-> RunResult(FALSE, FALSE, <<>>, "absent")]

\* output.startswith("{") and output.split("\n")[0].
startswith_brace(raw) == raw # <<>> /\ (raw[1] = "{" \/ raw[1] \in JsonObjects)
first_line(raw) ==
    LET breaks == {i \in DOMAIN raw : raw[i] = "\n"}
    IN IF breaks = {} THEN raw
       ELSE SubSeq(raw, 1, (CHOOSE i \in breaks : \A j \in breaks : i <= j) - 1)

InvalidResponse(raw) ==
    [RunResult(TRUE, FALSE, raw, "Invalid response: {0}") EXCEPT
        !.shown = SubSeq(raw, 1, IF Len(raw) < ErrorPrefix THEN Len(raw) ELSE ErrorPrefix)]

\* A variant that tries the first line of whatever does not decode, for
\* comparison.
run_snippet_any_first_line(proc) ==
    LET output == run_temper(proc)
        raw == RawText(output.text)
    IN IF output.none \/ raw = <<>>
       THEN RunResult(TRUE, FALSE, <<>>, "Failed to run temper")
       ELSE IF json_loads_raw(raw).ok THEN json_loads_raw(raw).value
       ELSE IF json_loads_raw(first_line(raw)).ok
       THEN json_loads_raw(first_line(raw)).value
       ELSE InvalidResponse(raw)

\* run_snippet: the failure record when there is no output; the decoded
\* document when the whole output decodes (whatever it is); the first line's
\* document when the output opens with a brace and that line decodes; else
\* the invalid-response record.
run_snippet(proc) ==
    LET output == run_temper(proc)
        raw == RawText(output.text)
    IN IF output.none \/ raw = <<>>
       THEN RunResult(TRUE, FALSE, <<>>, "Failed to run temper")
       ELSE IF json_loads_raw(raw).ok THEN json_loads_raw(raw).value
       ELSE IF startswith_brace(raw) /\ json_loads_raw(first_line(raw)).ok
       THEN json_loads_raw(first_line(raw)).value
       ELSE InvalidResponse(raw)

\* ------------------------------------------------------------ merged view
RECURSIVE merge_loop(_, _, _, _)
merge_loop(merged, cloud, local_slugs, i) ==
    IF i > Len(cloud) THEN merged
    ELSE merge_loop(IF cloud[i].slug \notin local_slugs
                    THEN Append(merged, cloud[i]) ELSE merged,
                    cloud, local_slugs, i + 1)

get_all_snippets_keep_all(local, cloud) == local \o cloud

get_all_snippets(local, cloud) ==
    LET local_slugs == SlugsOf(local)
    IN merge_loop(local, cloud, local_slugs, 1)

\* ------------------------------------------------------------------ state
VARIABLES
    cache,      \* _snippet_cache: [local, cloud, loading]
    pc,         \* pc[w]: where refresh worker w stands in do_refresh
    inc,        \* inc[w]: include_cloud of refresh w
    cb,         \* cb[w]: the callback refresh w was given (kind "none": None)
    fetched,    \* fetched[w]: what w's list / search calls returned so far
    invoked,    \* invoked[w]: the tool operations w has spawned, in order
    origin,     \* per tier: the worker that stored it last, and the reply's records
    finished,   \* the workers that reached line 195, in that order
    ui_queue,   \* callbacks queued by sublime.set_timeout, oldest first
    queued,     \* queued[w]: how often w's callback was handed to set_timeout
    status,     \* the status bar's last message
    left,       \* the two tiers as the last refresh to reach line 195 left them
    mL, mR, mOut,  \* SpecMerge: the two tiers handed to the merge, its result
    syntax,     \* the view's syntax setting (its file's base name)
    file_name,  \* the path of the view's file, a sequence of characters
    cur,        \* the view's TemperRunCurrentSnippetCommand and its session
    buffer,     \* the view's text, a sequence of characters
    self,       \* self[m]: the attributes of the view's command object of mode m
    sess,       \* sess[s]: command session s (one run of a command)
    ui_busy,    \* the UI handler that is in the middle of get_all_snippets
    out_panel,  \* the "temper" output panel
    edits       \* the buffer edits made so far, in order

vars == <<cache, pc, inc, cb, fetched, invoked, origin, finished, ui_queue,
          queued, status, left, mL, mR, mOut, syntax, file_name, cur, buffer,
          self, sess, ui_busy, out_panel, edits>>

mergeVars == <<mL, mR, mOut>>
viewVars == <<syntax, file_name>>
sessionVars == <<viewVars, cur, buffer, self, sess, ui_busy, out_panel, edits>>

Refreshes == 1 .. MaxRefresh
NoTier == [set |-> FALSE, value |-> <<>>]
SomeTier(v) == [set |-> TRUE, value |-> v]
\* A status message, and the thread that called sublime.status_message.
Status(text, arg) == [text |-> text, arg |-> arg, counts |-> <<>>, thread |-> "ui"]
StatusFromWorker(text, arg) == [Status(text, arg) EXCEPT !.thread = "worker"]
Loaded(local_count, cloud_count) ==
    [text |-> "Temper: Loaded {0} local + {1} cloud snippets", arg |-> "",
     counts |-> <<local_count, cloud_count>>, thread |-> "ui"]
NoOrigin == [by |-> 0, reply |-> <<>>]
NoCallback == [kind |-> "none", s |-> 0]
Callback(kind, s) == [kind |-> kind, s |-> s]

InitRefresh ==
    /\ cache = [local |-> <<>>, cloud |-> <<>>, loading |-> FALSE]
    /\ pc = [w \in Refreshes |-> "idle"]
    /\ inc = [w \in Refreshes |-> TRUE]
    /\ cb = [w \in Refreshes |-> NoCallback]
    /\ fetched = [w \in Refreshes |-> [local |-> NoTier, cloud |-> NoTier]]
    /\ invoked = [w \in Refreshes |-> <<>>]
    /\ origin = [local |-> NoOrigin, cloud |-> NoOrigin]
    /\ finished = <<>>
    /\ ui_queue = <<>>
    /\ queued = [w \in Refreshes |-> 0]
    /\ status = Status("none", "")
    /\ left = [local |-> <<>>, cloud |-> <<>>]

\* Sessions that may be launched in one behaviour.
Sessions == 1 .. MaxSessions
Modes == {"replace", "insert_below", "show_output"}
\* The command objects of the view: the three run commands and
\* TemperSearchInsertCommand.
Commands == Modes \cup {"insert"}
NoLanguage == "none"
NoSel == [has |-> FALSE, a |-> 0, b |-> 0]
Region(a, b) == [has |-> TRUE, a |-> a, b |-> b]
NoResult ==
    [dict |-> FALSE, success |-> FALSE, output |-> <<>>, error |-> "none", shown |-> <<>>]
NoView == [done |-> FALSE, value |-> <<>>]
NewSession ==
    [mode |-> "none", stage |-> "new", started |-> NoSel, shown |-> 0,
     view |-> NoView, stale |-> NoView, ran |-> "none", stdin |-> <<>>,
     result |-> NoResult, output |-> <<>>, msg |-> "none", slug |-> "none",
     listed |-> <<>>, infos |-> <<>>, code |-> <<>>, dismissed |-> FALSE]

\* A view without a file; the command before Sublime asked it anything.
NoFile == <<>>
NoProc == [kind |-> "none"]
NewCurrent ==
    [enabled |-> "unknown", asked |-> "none", config |-> NoProc, checks |-> 0,
     tool_on_ui |-> 0, dialog |-> "none", stage |-> "idle", slug |-> <<>>,
     stdin |-> <<>>, ran |-> NoProc, result |-> NoResult, msg |-> "none"]

InitSessions ==
    /\ buffer = InitBuffer
    /\ self = [m \in Commands |->
                  IF m = "insert" THEN [language |-> NoLanguage, results |-> <<>>]
                  ELSE [selection |-> NoSel, selected_text |-> <<>>,
                        results |-> <<>>, slug |-> "none"]]
    /\ sess = [s \in Sessions |-> NewSession]
    /\ ui_busy = [on |-> FALSE, s |-> 0, local |-> <<>>]
    /\ out_panel = [shown |-> FALSE, by |-> 0, slug |-> "none", output |-> <<>>]
    /\ cur = NewCurrent
    /\ edits = <<>>

InitMergeIdle == mL = <<>> /\ mR = <<>> /\ mOut = [done |-> FALSE, value |-> <<>>]

\* A view of a syntax the language map knows nothing of.
Init == InitRefresh /\ InitMergeIdle /\ InitSessions /\ syntax = "Plain Text" /\ file_name = NoFile

\* ------------------------------------------------- refresh_snippet_cache
\* Thread ids are handed out in order: w is the next thread never started.
NextThread(w) == pc[w] = "idle" /\ \A v \in Refreshes : v < w => pc[v] # "idle"

\* refresh_snippet_cache(language, callback, include_cloud): starts the
\* worker thread and returns; do_refresh has not run yet.
refresh_snippet_cache(w, callback, include_cloud) ==
    /\ NextThread(w)
    /\ pc' = [pc EXCEPT ![w] = "spawned"]
    /\ inc' = [inc EXCEPT ![w] = include_cloud]
    /\ cb' = [cb EXCEPT ![w] = callback]

\* do_refresh, line 186: _snippet_cache["loading"] = True
do_refresh_begin(w) ==
    /\ pc[w] = "spawned"
    /\ cache' = [cache EXCEPT !.loading = TRUE]
    /\ pc' = [pc EXCEPT ![w] = "list"]
    /\ UNCHANGED <<inc, cb, fetched, invoked, origin, finished, ui_queue, queued,
                   status, left, mergeVars, sessionVars>>

Invocation(op, proc) == [op |-> op, found |-> proc.kind # "notfound"]

\* The records of the reply a spawn printed (none when it printed no array).
ReplyRecords(proc) ==
    IF proc.kind = "stdout" /\ proc.text.t = "object" /\ proc.text.results = "records"
    THEN proc.text.items ELSE <<>>

\* A variant of the list step that extends the local tier in place instead
\* of replacing it, for comparison.
do_refresh_list_append(w, proc) ==
    /\ pc[w] = "list"
    /\ LET r == list_snippets(proc)
       IN /\ invoked' = [invoked EXCEPT ![w] = Append(@, Invocation("list", proc))]
          /\ IF r.raised
             THEN /\ pc' = [pc EXCEPT ![w] = "died"]
                  /\ UNCHANGED <<cache, fetched, origin>>
             ELSE /\ cache' = [cache EXCEPT !.local = @ \o r.value]
                  /\ fetched' = [fetched EXCEPT ![w].local = SomeTier(r.value)]
                  /\ origin' = [origin EXCEPT
                                   !.local = [by |-> w, reply |-> ReplyRecords(proc)]]
                  /\ pc' = [pc EXCEPT ![w] = IF inc[w] THEN "search" ELSE "finish"]
    /\ UNCHANGED <<inc, cb, finished, ui_queue, queued, status, left, mergeVars,
                   sessionVars>>

\* do_refresh, line 189: _snippet_cache["local"] = list_snippets(language).
\* An exception list_snippets lets through ends the thread there.
do_refresh_list(w, proc) ==
    /\ pc[w] = "list"
    /\ LET r == list_snippets(proc)
       IN /\ invoked' = [invoked EXCEPT ![w] = Append(@, Invocation("list", proc))]
          /\ IF r.raised
             THEN /\ pc' = [pc EXCEPT ![w] = "died"]
                  /\ UNCHANGED <<cache, fetched, origin>>
             ELSE /\ cache' = [cache EXCEPT !.local = r.value]
                  /\ fetched' = [fetched EXCEPT ![w].local = SomeTier(r.value)]
                  /\ origin' = [origin EXCEPT !.local = [by |-> w, reply |-> ReplyRecords(proc)]]
                  /\ pc' = [pc EXCEPT ![w] = IF inc[w] THEN "search" ELSE "finish"]
    /\ UNCHANGED <<inc, cb, finished, ui_queue, queued, status, left, mergeVars,
                   sessionVars>>

\* A variant of the search step that stores its result in the local tier,
\* for comparison.
do_refresh_search_into_local(w, proc) ==
    /\ pc[w] = "search"
    /\ LET r == search_snippets(proc)
       IN /\ invoked' = [invoked EXCEPT ![w] = Append(@, Invocation("search", proc))]
          /\ IF r.raised
             THEN /\ pc' = [pc EXCEPT ![w] = "died"]
                  /\ UNCHANGED <<cache, fetched, origin>>
             ELSE /\ cache' = [cache EXCEPT !.local = r.value]
                  /\ fetched' = [fetched EXCEPT ![w].cloud = SomeTier(r.value)]
                  /\ origin' = [origin EXCEPT
                                   !.cloud = [by |-> w, reply |-> ReplyRecords(proc)]]
                  /\ pc' = [pc EXCEPT ![w] = "finish"]
    /\ UNCHANGED <<inc, cb, finished, ui_queue, queued, status, left, mergeVars,
                   sessionVars>>

\* do_refresh, lines 192-193: if include_cloud: cache["cloud"] = search_snippets(...)
do_refresh_search(w, proc) ==
    /\ pc[w] = "search"
    /\ LET r == search_snippets(proc)
       IN /\ invoked' = [invoked EXCEPT ![w] = Append(@, Invocation("search", proc))]
          /\ IF r.raised
             THEN /\ pc' = [pc EXCEPT ![w] = "died"]
                  /\ UNCHANGED <<cache, fetched, origin>>
             ELSE /\ cache' = [cache EXCEPT !.cloud = r.value]
                  /\ fetched' = [fetched EXCEPT ![w].cloud = SomeTier(r.value)]
                  /\ origin' = [origin EXCEPT !.cloud = [by |-> w, reply |-> ReplyRecords(proc)]]
                  /\ pc' = [pc EXCEPT ![w] = "finish"]
    /\ UNCHANGED <<inc, cb, finished, ui_queue, queued, status, left, mergeVars,
                   sessionVars>>

\* do_refresh, line 195: _snippet_cache["loading"] = False
do_refresh_finish(w) ==
    /\ pc[w] = "finish"
    /\ cache' = [cache EXCEPT !.loading = FALSE]
    /\ finished' = Append(finished, w)
    /\ left' = [local |-> cache.local, cloud |-> cache.cloud]
    /\ pc' = [pc EXCEPT ![w] = "notify"]
    /\ UNCHANGED <<inc, cb, fetched, invoked, origin, ui_queue, queued, status,
                   mergeVars, sessionVars>>

\* do_refresh, lines 196-197: if callback: sublime.set_timeout(callback, 0)
do_refresh_notify(w) ==
    /\ pc[w] = "notify"
    /\ IF cb[w].kind # "none"
       THEN /\ ui_queue' = Append(ui_queue, cb[w])
            /\ queued' = [queued EXCEPT ![w] = @ + 1]
       ELSE UNCHANGED <<ui_queue, queued>>
    /\ pc' = [pc EXCEPT ![w] = "done"]
    /\ UNCHANGED <<left, cache, inc, cb, fetched, invoked, origin, finished, status,
                   mergeVars, sessionVars>>

\* A caller of the function itself, with any include_cloud and with a
\* callback of its own or none.
CallRefresh(w) ==
    /\ \E callback \in {NoCallback, Callback("callback", 0)}, include_cloud \in BOOLEAN :
           refresh_snippet_cache(w, callback, include_cloud)
    /\ UNCHANGED <<left, cache, fetched, invoked, origin, finished, ui_queue, queued, status,
                   mergeVars, sessionVars>>

\* TemperRefreshCacheCommand.run: status, then refresh with on_done.
TemperRefreshCacheCommand_run(w) ==
    /\ status' = Status("Temper: Refreshing snippet cache...", "")
    /\ refresh_snippet_cache(w, Callback("on_done", 0), TRUE)
    /\ UNCHANGED <<left, cache, fetched, invoked, origin, finished, ui_queue, queued,
                   mergeVars, sessionVars>>

\* The UI context runs the oldest queued callback.  on_done reports the two
\* tiers' sizes in the status bar; a caller's own callback is opaque.
RunCallback ==
    /\ ~ui_busy.on
    /\ ui_queue # <<>>
    /\ Head(ui_queue).kind \in {"on_done", "callback"}
    /\ ui_queue' = Tail(ui_queue)
    /\ status' = IF Head(ui_queue).kind = "on_done"
                 THEN Loaded(Len(cache.local), Len(cache.cloud)) ELSE status
    /\ UNCHANGED <<left, cache, pc, inc, cb, fetched, invoked, origin, finished, queued,
                   mergeVars, sessionVars>>

Next ==
    \/ \E w \in Refreshes : CallRefresh(w)
    \/ \E w \in Refreshes : TemperRefreshCacheCommand_run(w)
    \/ \E w \in Refreshes : do_refresh_begin(w)
    \/ \E w \in Refreshes, proc \in ListOutcomes : do_refresh_list(w, proc)
    \/ \E w \in Refreshes, proc \in ListOutcomes : do_refresh_search(w, proc)
    \/ \E w \in Refreshes : do_refresh_finish(w)
    \/ \E w \in Refreshes : do_refresh_notify(w)
    \/ RunCallback

Spec == Init /\ [][Next]_vars

\* ------------------------------------------- the merge on arbitrary tiers
\* get_all_snippets reads the two tiers of the cache and merges them; here
\* the cache holds any local tier and any cloud tier up to MaxTier records.
InitMerge ==
    /\ InitRefresh
    /\ InitSessions
    /\ syntax = "Plain Text" /\ file_name = NoFile
    /\ mL \in SeqsUpTo(TierRecords(TRUE), MaxTier)
    /\ mR \in SeqsUpTo(TierRecords(FALSE), MaxTier)
    /\ mOut = [done |-> FALSE, value |-> <<>>]

MergeCall ==
    /\ ~mOut.done
    /\ mOut' = [done |-> TRUE, value |-> get_all_snippets(mL, mR)]
    /\ UNCHANGED <<cache, pc, inc, cb, fetched, invoked, origin, finished, ui_queue,
                   queued, status, left, mL, mR, sessionVars>>

SpecMerge == InitMerge /\ [][MergeCall]_vars

\* C1: get_all_snippets returns all of L in its order, then exactly the
\* records of R whose slug is no slug of L, in R's order; no record of R
\* whose slug occurs in L is in the result.
C1_MergeLocalThenUnshadowedCloud ==
    mOut.done =>
        LET Unshadowed(r) == r.slug \notin SlugsOf(mL)
            kept == SelectSeq(mR, Unshadowed)
            out == mOut.value
        IN /\ Len(out) = Len(mL) + Len(kept)
           /\ \A i \in 1 .. Len(mL) : out[i] = mL[i]
           /\ \A j \in 1 .. Len(kept) : out[Len(mL) + j] = kept[j]
           /\ \A i \in DOMAIN out, j \in DOMAIN mR :
                  mR[j].slug \in SlugsOf(mL) => out[i] # mR[j]

\* A merge in which one cloud record is shadowed and a later one is kept.
C1_Witness ==
    /\ mOut.done
    /\ Len(mL) >= 2
    /\ \E j, k \in DOMAIN mR :
           /\ j < k
           /\ mR[j].slug \in SlugsOf(mL)
           /\ mR[k].slug \notin SlugsOf(mL)
           /\ mOut.value[Len(mOut.value)] = mR[k]

\* ------------------------------------------------------ the loading flag
\* Worker w is between its loading = True and its loading = False.
InFlight(w) == pc[w] \in {"list", "search", "finish"}
Completed(w) == pc[w] \in {"notify", "done"}
Ended(w) == pc[w] \in {"done", "died"}

\* C2: the loading flag is true exactly when some refresh worker has
\* started and not yet finished, overlapping refreshes included.  Stated on
\* the behaviours in which no worker thread died, so that what refutes it is
\* the overlap itself.
C2_LoadingIffInFlight ==
    (\A w \in Refreshes : pc[w] # "died") =>
        (cache.loading <=> \E w \in Refreshes : InFlight(w))

\* ------------------------------------------------- overlapping refreshes
AllSettled == \A w \in Refreshes : pc[w] = "idle" \/ Completed(w)

\* C4 as claimed: once two refreshes that both include the cloud tier have
\* finished, both tiers hold what the refresh that finished last fetched.
C4_LastFinisherHoldsBothTiers ==
    (/\ AllSettled
     /\ Len(finished) >= 2
     /\ \A i \in DOMAIN finished : inc[finished[i]]) =>
        LET last == finished[Len(finished)]
        IN /\ cache.local = fetched[last].local.value
           /\ cache.cloud = fetched[last].cloud.value

\* C4 as amended: each tier holds what the refresh that stored that tier
\* last fetched for it; the two tiers need not come from one refresh.
C4_EachTierFromItsLastStore ==
    /\ origin.local.by # 0 =>
           /\ fetched[origin.local.by].local.set
           /\ cache.local = fetched[origin.local.by].local.value
    /\ origin.cloud.by # 0 =>
           /\ fetched[origin.cloud.by].cloud.set
           /\ cache.cloud = fetched[origin.cloud.by].cloud.value
    /\ origin.local.by = 0 => cache.local = <<>>
    /\ origin.cloud.by = 0 => cache.cloud = <<>>

\* Two finished refreshes whose results differ: the local tier is the first
\* finisher's, the cloud tier the last finisher's.
C4_Witness ==
    /\ AllSettled
    /\ Len(finished) = 2
    /\ inc[finished[1]] /\ inc[finished[2]]
    /\ origin.local.by = finished[1]
    /\ origin.cloud.by = finished[2]
    /\ cache.local # fetched[finished[2]].local.value

\* ------------------------------------------------------------ completion
\* C5: a refresh given a callback queues it exactly once, whatever the list
\* and search fetches do: a worker thread that has ended has queued it once.
C5_EndedWorkerQueuedCallbackOnce ==
    \A w \in Refreshes :
        (Ended(w) /\ cb[w].kind # "none") => queued[w] = 1

\* ------------------------------------------------- executable not found
NotFoundAt(w, op) ==
    \E i \in DOMAIN invoked[w] : invoked[w][i].op = op /\ ~invoked[w][i].found

\* C6 as claimed: a step in which the executable is not found leaves both
\* tiers as they were, and the refresh spawns nothing after it.
C6_NotFoundAbortsRefresh ==
    [][\A w \in Refreshes :
          /\ (/\ Len(invoked'[w]) > Len(invoked[w])
              /\ ~invoked'[w][Len(invoked'[w])].found) =>
                 (cache'.local = cache.local /\ cache'.cloud = cache.cloud)
          /\ (NotFoundAt(w, "list") \/ NotFoundAt(w, "search")) =>
                 invoked'[w] = invoked[w]]_vars

\* C6 as amended: the refresh goes on; the call that found no executable
\* stores an empty sequence in its tier, and after a list call that found
\* none a refresh with include_cloud still spawns the search.
C6_NotFoundStoresEmptyAndGoesOn ==
    \A w \in Refreshes :
        /\ NotFoundAt(w, "list") =>
               /\ fetched[w].local = SomeTier(<<>>)
               /\ inc[w] => (pc[w] = "search" \/ Len(invoked[w]) = 2)
               /\ ~inc[w] => pc[w] \in {"finish", "notify", "done"}
        /\ NotFoundAt(w, "search") => fetched[w].cloud = SomeTier(<<>>)

\* A refresh whose list call found no executable emptied a local tier that
\* held records, and spawned the search all the same.
C6_Witness ==
    \E w \in Refreshes :
        /\ NotFoundAt(w, "list")
        /\ Len(invoked[w]) = 2
        /\ origin.local.by = w /\ cache.local = <<>>
        /\ \E v \in Refreshes : v # w /\ fetched[v].local.set
                                 /\ fetched[v].local.value # <<>>
                                 /\ Completed(v)

\* ---------------------------------------------------------- include_cloud
Spawned(w, op) == \E i \in DOMAIN invoked[w] : invoked[w][i].op = op

\* C7: a refresh without include_cloud replaces the local tier, spawns no
\* search and stores nothing in the cloud tier; one with include_cloud
\* replaces both tiers.  Read on a worker thread that has ended.
C7_IncludeCloudDecidesTiers ==
    \A w \in Refreshes :
        Ended(w) =>
            /\ fetched[w].local.set
            /\ inc[w] => fetched[w].cloud.set
            /\ ~inc[w] => (~Spawned(w, "search") /\ ~fetched[w].cloud.set)

\* ------------------------------------------------------ slugs in a tier
UniqueSlugs(tier) ==
    \A i, j \in DOMAIN tier : tier[i].slug = tier[j].slug => i = j

\* C8 as claimed: no two records of a tier share a slug.
C8_TierSlugsUnique == UniqueSlugs(cache.local) /\ UniqueSlugs(cache.cloud)

SameRecords(tier, reply, is_local) ==
    /\ Len(tier) = Len(reply)
    /\ \A i \in DOMAIN tier :
           /\ tier[i].slug = reply[i].slug
           /\ tier[i].title = reply[i].title
           /\ tier[i].isLocal = is_local

\* C8 as amended: a tier holds the records of the reply that was stored in
\* it last, one for one and in the reply's order, each tagged with its tier;
\* a slug the reply repeats is repeated in the tier.
C8_TierIsReplyAsPrinted ==
    /\ SameRecords(cache.local, origin.local.reply, TRUE)
    /\ SameRecords(cache.cloud, origin.cloud.reply, FALSE)

\* Both tiers hold a slug twice, as the replies printed it.
C8_Witness ==
    /\ ~UniqueSlugs(cache.local) /\ ~UniqueSlugs(cache.cloud)
    /\ ~UniqueSlugs(origin.local.reply)
    /\ \E w \in Refreshes : pc[w] = "done"

\* ------------------------------------------------------- the view's text
Min(a, b) == IF a < b THEN a ELSE b

\* What the view's selection is when a command starts: no region, an empty
\* region, the first character, or the last one selected backwards.
Selections == {NoSel, Region(1, 1), Region(0, 1), Region(3, 2)}
Begin(r) == Min(r.a, r.b)
End(r) == IF r.a < r.b THEN r.b ELSE r.a
Empty(r) == r.a = r.b

\* view.substr(region)
Substr(buf, r) == SubSeq(buf, Min(Begin(r), Len(buf)) + 1, Min(End(r), Len(buf)))

\* view.replace(edit, region, text); a region past the end is cut to it.
ReplaceRange(buf, r, text) ==
    SubSeq(buf, 1, Min(Begin(r), Len(buf))) \o text
        \o SubSeq(buf, Min(End(r), Len(buf)) + 1, Len(buf))

\* view.line(point).end(): the end of the line the point is on.
RECURSIVE LineEnd(_, _)
LineEnd(buf, point) ==
    IF point >= Len(buf) THEN Len(buf)
    ELSE IF buf[point + 1] = "\n" THEN point
    ELSE LineEnd(buf, point + 1)

\* view.insert(edit, point, text)
InsertAt(buf, point, text) ==
    SubSeq(buf, 1, point) \o text \o SubSeq(buf, point + 1, Len(buf))

\* TemperApplyResultCommand.run
TemperApplyResultCommand_run(buf, mode, text, r) ==
    IF mode = "replace" THEN ReplaceRange(buf, r, text)
    ELSE IF mode = "insert_below"
    THEN InsertAt(buf, LineEnd(buf, End(r)), <<"\n">> \o text)
    ELSE buf

\* ------------------------------------------------------ command sessions
\* The view keeps one command object per command class, so every session
\* of a mode reads and writes the same attributes self[m].
NextSession(s) == sess[s].stage = "new" /\ \A t \in Sessions : t < s => sess[t].stage # "new"
UiFree == ~ui_busy.on

\* TemperRunBaseCommand.run, the view's selection being sel.
TemperRunBaseCommand_run(s, mode, sel) ==
    /\ UiFree
    /\ NextSession(s)
    /\ IF mode # "show_output" /\ (~sel.has \/ Empty(sel))
       THEN /\ status' = Status("No text selected", "")
            /\ sess' = [sess EXCEPT ![s].mode = mode, ![s].stage = "aborted",
                                    ![s].started = sel]
            /\ UNCHANGED <<pc, inc, cb, self>>
       ELSE /\ self' = [self EXCEPT
                           ![mode].selection = sel,
                           ![mode].selected_text =
                               IF sel.has /\ ~Empty(sel) THEN Substr(buffer, sel) ELSE <<>>]
            /\ status' = Status("Temper: Loading snippets...", "")
            /\ \E w \in Refreshes : refresh_snippet_cache(w, Callback("show_panel", s), TRUE)
            /\ sess' = [sess EXCEPT ![s].mode = mode, ![s].stage = "loading",
                                    ![s].started = sel]
    /\ UNCHANGED <<cache, fetched, invoked, origin, finished, ui_queue, queued, left,
                   mergeVars, viewVars, cur, buffer, ui_busy, out_panel, edits>>

\* show_panel, line 323 as far as get_all_snippets' read of the local tier
\* (line 125); the worker threads run on while the UI is in here.
show_panel_read_local(s) ==
    /\ UiFree
    /\ ui_queue # <<>> /\ Head(ui_queue) = Callback("show_panel", s)
    /\ ui_queue' = Tail(ui_queue)
    /\ ui_busy' = [on |-> TRUE, s |-> s, local |-> cache.local]
    /\ sess' = [sess EXCEPT ![s].stale =
                   IF \E w \in Refreshes : InFlight(w)
                   THEN [done |-> TRUE, value |-> get_all_snippets(left.local, left.cloud)]
                   ELSE NoView]
    /\ UNCHANGED <<cache, pc, inc, cb, fetched, invoked, origin, finished, queued,
                   status, left, mergeVars, viewVars, cur, buffer, self, out_panel, edits>>

\* show_panel from get_all_snippets' read of the cloud tier (line 126) on.
show_panel_present(s) ==
    /\ ui_busy.on /\ ui_busy.s = s
    /\ sess[s].mode \in Modes
    /\ LET all_snippets == get_all_snippets(ui_busy.local, cache.cloud)
       IN IF all_snippets = <<>>
          THEN /\ status' = Status("Temper: No snippets available", "")
               /\ sess' = [sess EXCEPT ![s].stage = "empty",
                                       ![s].view = [done |-> TRUE, value |-> all_snippets]]
               /\ UNCHANGED self
          ELSE /\ self' = [self EXCEPT ![sess[s].mode].results = all_snippets]
               /\ status' = Status("", "")
               /\ sess' = [sess EXCEPT ![s].stage = "panel",
                                       ![s].shown = Len(all_snippets),
                                       ![s].listed = all_snippets,
                                       ![s].view = [done |-> TRUE, value |-> all_snippets]]
    /\ ui_busy' = [on |-> FALSE, s |-> 0, local |-> <<>>]
    /\ UNCHANGED <<cache, pc, inc, cb, fetched, invoked, origin, finished, ui_queue,
                   queued, left, mergeVars, viewVars, cur, buffer, out_panel, edits>>

\* on_highlight(index): the user moves to a row of the list shown.
on_highlight(s, index) ==
    /\ UiFree
    /\ sess[s].stage = "panel"
    /\ index < sess[s].shown
    /\ index >= 0 /\ index < Len(self[sess[s].mode].results)
    /\ status' = Status("Temper: {0}", self[sess[s].mode].results[index + 1].slug)
    /\ UNCHANGED <<cache, pc, inc, cb, fetched, invoked, origin, finished, ui_queue,
                   queued, left, mergeVars, sessionVars>>

\* A variant of on_select that starts the worker thread on a dismissal
\* too, for comparison.
on_select_thread_anyway(s, index) ==
    /\ UiFree
    /\ sess[s].stage = "panel"
    /\ sess[s].mode \in Modes
    /\ index < sess[s].shown
    /\ LET me == self[sess[s].mode]
       IN IF index < 0
          THEN /\ status' = Status("", "")
               /\ sess' = [sess EXCEPT ![s].stage = "thread", ![s].dismissed = TRUE]
               /\ UNCHANGED self
          ELSE IF index >= Len(me.results)
          THEN /\ sess' = [sess EXCEPT ![s].stage = "select_raised"]
               /\ UNCHANGED <<self, status>>
          ELSE /\ self' = [self EXCEPT ![sess[s].mode].slug = me.results[index + 1].slug]
               /\ sess' = [sess EXCEPT ![s].stage = "thread"]
               /\ UNCHANGED status
    /\ UNCHANGED <<cache, pc, inc, cb, fetched, invoked, origin, finished, ui_queue,
                   queued, left, mergeVars, viewVars, cur, buffer, ui_busy, out_panel, edits>>

\* on_select(index): the user dismisses the list (index -1) or picks a row.
\* self.results[index] raises IndexError when the list kept in self has
\* been replaced by a shorter one.
on_select(s, index) ==
    /\ UiFree
    /\ sess[s].stage = "panel"
    /\ sess[s].mode \in Modes
    /\ index < sess[s].shown
    /\ LET me == self[sess[s].mode]
       IN IF index < 0
          THEN /\ status' = Status("", "")
               /\ sess' = [sess EXCEPT ![s].stage = "cancelled", ![s].dismissed = TRUE]
               /\ UNCHANGED self
          ELSE IF index >= Len(me.results)
          THEN /\ sess' = [sess EXCEPT ![s].stage = "select_raised"]
               /\ UNCHANGED <<self, status>>
          ELSE /\ self' = [self EXCEPT ![sess[s].mode].slug = me.results[index + 1].slug]
               /\ sess' = [sess EXCEPT ![s].stage = "thread"]
               /\ UNCHANGED status
    /\ UNCHANGED <<cache, pc, inc, cb, fetched, invoked, origin, finished, ui_queue,
                   queued, left, mergeVars, viewVars, cur, buffer, ui_busy, out_panel, edits>>

\* run_and_apply, line 358 as far as the spawn: the worker thread reads
\* self.slug and self.selected_text.
run_and_apply_call(s) ==
    /\ sess[s].stage = "thread"
    /\ sess[s].mode \in Modes
    /\ sess' = [sess EXCEPT ![s].stage = "running",
                            ![s].ran = self[sess[s].mode].slug,
                            ![s].stdin = self[sess[s].mode].selected_text]
    /\ UNCHANGED <<cache, pc, inc, cb, fetched, invoked, origin, finished, ui_queue,
                   queued, status, left, mergeVars, viewVars, cur, buffer, self, ui_busy, out_panel,
                   edits>>

ApplyCallback(mode) ==
    IF mode = "replace" THEN "do_replace"
    ELSE IF mode = "insert_below" THEN "do_insert" ELSE "show_output"

\* A variant of run_and_apply that shows the error's status message from the
\* worker thread itself, for comparison.
run_and_apply_return_inline(s, proc) ==
    /\ sess[s].stage = "running"
    /\ LET result == run_snippet(proc)
       IN IF ~result.dict
          THEN /\ sess' = [sess EXCEPT ![s].stage = "died", ![s].result = result]
               /\ UNCHANGED <<ui_queue, status>>
          ELSE IF ~result.success
          THEN /\ sess' = [sess EXCEPT
                              ![s].stage = "error_shown", ![s].result = result,
                              ![s].msg = IF result.error = "absent"
                                         THEN "Unknown error" ELSE result.error]
               /\ status' = StatusFromWorker("Error: {0}", result.error)
               /\ UNCHANGED ui_queue
          ELSE /\ sess' = [sess EXCEPT
                              ![s].stage = "apply_queued", ![s].result = result,
                              ![s].output = result.output,
                              ![s].slug = IF sess[s].mode = "show_output"
                                          THEN self[sess[s].mode].slug ELSE @]
               /\ ui_queue' = Append(ui_queue, Callback(ApplyCallback(sess[s].mode), s))
               /\ UNCHANGED status
    /\ UNCHANGED <<cache, pc, inc, cb, fetched, invoked, origin, finished, queued,
                   left, mergeVars, viewVars, cur, buffer, self, ui_busy, out_panel, edits>>

\* run_and_apply from the return of run_snippet on: result.get raises
\* AttributeError on a result that is no dict and ends the thread; a result
\* without success queues the error's status message; else apply_output
\* queues the mode's callback (show_output reads self.slug here, line 414).
run_and_apply_return(s, proc) ==
    /\ sess[s].stage = "running"
    /\ LET result == run_snippet(proc)
       IN IF ~result.dict
          THEN /\ sess' = [sess EXCEPT ![s].stage = "died", ![s].result = result]
               /\ UNCHANGED ui_queue
          ELSE IF ~result.success
          THEN /\ sess' = [sess EXCEPT
                              ![s].stage = "error_queued", ![s].result = result,
                              ![s].msg = IF result.error = "absent"
                                         THEN "Unknown error" ELSE result.error]
               /\ ui_queue' = Append(ui_queue, Callback("error_status", s))
          ELSE /\ sess' = [sess EXCEPT
                              ![s].stage = "apply_queued", ![s].result = result,
                              ![s].output = result.output,
                              ![s].slug = IF sess[s].mode = "show_output"
                                          THEN self[sess[s].mode].slug ELSE @]
               /\ ui_queue' = Append(ui_queue, Callback(ApplyCallback(sess[s].mode), s))
    /\ UNCHANGED <<cache, pc, inc, cb, fetched, invoked, origin, finished, queued,
                   status, left, mergeVars, viewVars, cur, buffer, self, ui_busy, out_panel, edits>>

\* The lambda of lines 362-365 on the UI context.
error_status(s) ==
    /\ UiFree
    /\ ui_queue # <<>> /\ Head(ui_queue) = Callback("error_status", s)
    /\ ui_queue' = Tail(ui_queue)
    /\ status' = Status("Error: {0}", sess[s].msg)
    /\ sess' = [sess EXCEPT ![s].stage = "error_shown"]
    /\ UNCHANGED <<cache, pc, inc, cb, fetched, invoked, origin, finished, queued,
                   left, mergeVars, viewVars, cur, buffer, self, ui_busy, out_panel, edits>>

\* do_replace / do_insert on the UI context: temper_apply_result with the
\* region self.selection holds now, then the status message.
do_apply(s) ==
    /\ UiFree
    /\ ui_queue # <<>>
    /\ Head(ui_queue) \in {Callback("do_replace", s), Callback("do_insert", s)}
    /\ ui_queue' = Tail(ui_queue)
    /\ LET me == self[sess[s].mode]
       IN /\ buffer' = TemperApplyResultCommand_run(buffer, sess[s].mode,
                                                     sess[s].output, me.selection)
          /\ edits' = Append(edits, [s |-> s, mode |-> sess[s].mode,
                                      region |-> me.selection, text |-> sess[s].output])
          /\ status' = Status(IF sess[s].mode = "replace"
                               THEN "Temper: Replaced with {0} output"
                               ELSE "Temper: Inserted {0} output below", me.slug)
    /\ sess' = [sess EXCEPT ![s].stage = "applied"]
    /\ UNCHANGED <<cache, pc, inc, cb, fetched, invoked, origin, finished, queued,
                   left, mergeVars, viewVars, cur, self, ui_busy, out_panel>>

\* show_output on the UI context: a fresh output panel with the header and
\* the output, revealed, then the status message.
show_output(s) ==
    /\ UiFree
    /\ ui_queue # <<>> /\ Head(ui_queue) = Callback("show_output", s)
    /\ ui_queue' = Tail(ui_queue)
    /\ out_panel' = [shown |-> TRUE, by |-> s, slug |-> sess[s].slug,
                     output |-> sess[s].output]
    /\ status' = Status("Temper: Output from {0}", sess[s].slug)
    /\ sess' = [sess EXCEPT ![s].stage = "applied"]
    /\ UNCHANGED <<cache, pc, inc, cb, fetched, invoked, origin, finished, queued,
                   left, mergeVars, viewVars, cur, buffer, self, ui_busy, edits>>

\* What the tool does in a session's refresh and in its run.
SessionListOutcomes ==
    {ProcStdout(TextResults(<<r>>)) : r \in RawRecords}
SessionRunOutcomes ==
    {ProcNotFound, ProcStdout(TextNonObject), ProcStdout(TextBrace)}
        \cup {ProcStdout(TextPayload(p)) : p \in RunPayloads}

NextRun ==
    \/ \E s \in Sessions, mode \in Modes, sel \in Selections :
           TemperRunBaseCommand_run(s, mode, sel)
    \/ \E w \in Refreshes : do_refresh_begin(w)
    \/ \E w \in Refreshes, proc \in SessionListOutcomes : do_refresh_list(w, proc)
    \/ \E w \in Refreshes, proc \in SessionListOutcomes : do_refresh_search(w, proc)
    \/ \E w \in Refreshes : do_refresh_finish(w)
    \/ \E w \in Refreshes : do_refresh_notify(w)
    \/ \E s \in Sessions : show_panel_read_local(s)
    \/ \E s \in Sessions : show_panel_present(s)
    \/ \E s \in Sessions, index \in 0 .. MaxResults * 2 : on_highlight(s, index)
    \/ \E s \in Sessions, index \in -1 .. MaxResults * 2 : on_select(s, index)
    \/ \E s \in Sessions : run_and_apply_call(s)
    \/ \E s \in Sessions, proc \in SessionRunOutcomes : run_and_apply_return(s, proc)
    \/ \E s \in Sessions : error_status(s)
    \/ \E s \in Sessions : do_apply(s)
    \/ \E s \in Sessions : show_output(s)

SpecRun == Init /\ [][NextRun]_vars

\* ------------------------------------------- readers during a refresh
\* Sessions whose list the user leaves unanswered: the refreshes they start
\* and the show_panel callbacks, with every reply the tool may print.
ViewListOutcomes ==
    {ProcStdout(TextNonObject)}
        \cup {ProcStdout(TextResults(items)) : items \in ToolResults}

NextView ==
    \/ \E s \in Sessions, mode \in Modes, sel \in Selections :
           TemperRunBaseCommand_run(s, mode, sel)
    \/ \E w \in Refreshes : do_refresh_begin(w)
    \/ \E w \in Refreshes, proc \in ViewListOutcomes : do_refresh_list(w, proc)
    \/ \E w \in Refreshes, proc \in ViewListOutcomes : do_refresh_search(w, proc)
    \/ \E w \in Refreshes : do_refresh_finish(w)
    \/ \E w \in Refreshes : do_refresh_notify(w)
    \/ \E s \in Sessions : show_panel_read_local(s)
    \/ \E s \in Sessions : show_panel_present(s)

SpecView == Init /\ [][NextView]_vars

\* C3 as claimed: get_all_snippets called while a refresh is in flight
\* returns the merged view of the pair of tiers the last completed refresh
\* left.
C3_ViewOfLastCompletedRefresh ==
    \A s \in Sessions :
        (sess[s].view.done /\ sess[s].stale.done) =>
            sess[s].view.value = sess[s].stale.value

LocalTiersStored == {<<>>} \cup {fetched[w].local.value : w \in Refreshes}
CloudTiersStored == {<<>>} \cup {fetched[w].cloud.value : w \in Refreshes}

\* C3 as amended: the view is the merge of a whole local tier and a whole
\* cloud tier, each the result of one fetch (or the empty tier the cache
\* starts with), as the call reads them; the two may come from different
\* refreshes.
C3_ViewOfWholeTiers ==
    \A s \in Sessions :
        sess[s].view.done =>
            \E l \in LocalTiersStored, c \in CloudTiersStored :
                sess[s].view.value = get_all_snippets(l, c)

\* A view read while a refresh was between its two stores: that refresh's
\* new local tier merged with the cloud tier of the one before.
C3_Witness ==
    \E s \in Sessions, w \in Refreshes :
        /\ sess[s].view.done /\ sess[s].stale.done
        /\ pc[w] = "search"
        /\ origin.local.by = w
        /\ origin.cloud.by \notin {0, w}
        /\ sess[s].view.value = get_all_snippets(cache.local, cache.cloud)
        /\ sess[s].view.value # sess[s].stale.value

\* ------------------------------------------------------ applying a run
Returned(s) ==
    sess[s].stage \in {"died", "error_queued", "error_shown", "apply_queued", "applied"}
EditsOf(s) == {i \in DOMAIN edits : edits[i].s = s}

\* C9: a replace session whose run succeeds with output o replaces the
\* range its own run() captured, with o, also when a second session of the
\* command starts while its worker is in flight.
C9_ReplaceHitsCapturedRange ==
    \A i \in DOMAIN edits :
        edits[i].mode = "replace" =>
            /\ edits[i].region = sess[edits[i].s].started
            /\ edits[i].text = sess[edits[i].s].result.output

\* C10: a snippet-run session whose run result does not indicate success
\* surfaces the error as a status message and changes neither the buffer
\* nor the output panel.
C10_FailureSurfacedAndNothingWritten ==
    \A s \in Sessions :
        (Returned(s) /\ ~(sess[s].result.dict /\ sess[s].result.success)) =>
            /\ sess[s].stage \in {"error_queued", "error_shown"}
            /\ EditsOf(s) = {}
            /\ out_panel.by # s

\* ------------------------------------------------- starting a session
NoneSelected(r) == ~r.has \/ Empty(r)
RefreshesOf(s) == {w \in Refreshes : cb[w] = Callback("show_panel", s)}

\* What C11 says of a replace or insert-below session started with nothing
\* selected: it ended at once; it started no refresh, was shown no list,
\* ran nothing and made no edit.
C11_NothingSelectedEndsAtOnce ==
    \A s \in Sessions :
        (sess[s].mode \in {"replace", "insert_below"} /\ NoneSelected(sess[s].started)) =>
            /\ sess[s].stage = "aborted"
            /\ RefreshesOf(s) = {}
            /\ ~sess[s].view.done
            /\ sess[s].ran = "none"
            /\ EditsOf(s) = {}

\* C11: a replace or insert-below session started with no selection or an
\* empty one ends at once (no refresh, no list, no tool run, no edit); a
\* show-output session started without a selection goes on and runs the
\* snippet chosen with no input.
C11_SelectionGate ==
    /\ C11_NothingSelectedEndsAtOnce
    /\ \A s \in Sessions :
           (sess[s].mode = "show_output" /\ NoneSelected(sess[s].started)) =>
               /\ sess[s].stage # "aborted"
               /\ RefreshesOf(s) # {}
               /\ sess[s].ran # "none" => sess[s].stdin = <<>>

\* ---------------------------------------------- TemperSearchInsertCommand
\* The lower-cased base name of the view's syntax, and LANGUAGE_MAP in its
\* order; get_temper_language returns the language of the first key that
\* occurs in the name, else None.
SyntaxName(syn) ==
    IF syn = "Python" THEN <<"p", "y", "t", "h", "o", "n">>
    ELSE IF syn = "TypeScript"
    THEN <<"t", "y", "p", "e", "s", "c", "r", "i", "p", "t">>
    ELSE <<"p", "l", "a", "i", "n", " ", "t", "e", "x", "t">>

LANGUAGE_MAP ==
    << [key |-> <<"j", "a", "v", "a", "s", "c", "r", "i", "p", "t">>, lang |-> "javascript"],
       [key |-> <<"j", "s">>, lang |-> "javascript"],
       [key |-> <<"t", "y", "p", "e", "s", "c", "r", "i", "p", "t">>, lang |-> "javascript"],
       [key |-> <<"t", "s">>, lang |-> "javascript"],
       [key |-> <<"p", "y", "t", "h", "o", "n">>, lang |-> "python"],
       [key |-> <<"r", "u", "b", "y">>, lang |-> "ruby"],
       [key |-> <<"p", "h", "p">>, lang |-> "php"],
       [key |-> <<"s", "h", "e", "l", "l">>, lang |-> "bash"],
       [key |-> <<"b", "a", "s", "h">>, lang |-> "bash"],
       [key |-> <<"s", "h">>, lang |-> "bash"] >>

Contains(key, name) ==
    \E i \in 1 .. Len(name) - Len(key) + 1 : SubSeq(name, i, i + Len(key) - 1) = key

get_temper_language(syn) ==
    LET hits == {i \in DOMAIN LANGUAGE_MAP : Contains(LANGUAGE_MAP[i].key, SyntaxName(syn))}
    IN IF hits = {} THEN NoLanguage
       ELSE LANGUAGE_MAP[CHOOSE i \in hits : \A j \in hits : i <= j].lang

\* What `temper info <slug> --json` prints, by what json.loads makes of it:
\* a value that is false in a condition (null, [], 0, "", {}), a value that
\* is true and no dict, a dict without "code", a dict with "code".
Codes == {<<"c">>, <<"d">>}
NoCode == [has |-> FALSE, text |-> <<>>]
Code(c) == [has |-> TRUE, text |-> c]
InfoValue(dict, truthy, code) ==
    [t |-> "info", dict |-> dict, truthy |-> truthy, code |-> code]
InfoTexts ==
    {TextEmpty, TextNotJson,
     InfoValue(FALSE, FALSE, NoCode), InfoValue(TRUE, FALSE, NoCode),
     InfoValue(FALSE, TRUE, NoCode), InfoValue(TRUE, TRUE, NoCode)}
        \cup {InfoValue(TRUE, TRUE, Code(c)) : c \in Codes}
InfoOutcomes == {ProcNotFound, ProcFault} \cup {ProcStdout(x) : x \in InfoTexts}

None == [none |-> TRUE, dict |-> FALSE, truthy |-> FALSE, code |-> NoCode]

\* get_snippet_info: None when there is no output or it does not decode,
\* else the decoded document, whatever it is.
get_snippet_info(proc) ==
    LET output == run_temper(proc)
    IN IF output.none \/ output.text.t = "empty" THEN None
       ELSE LET data == json_loads(output.text)
            IN IF ~data.ok THEN None
               ELSE [none |-> FALSE, dict |-> data.value.dict,
                     truthy |-> data.value.truthy, code |-> data.value.code]

\* TemperSearchInsertCommand.run
TemperSearchInsertCommand_run(s) ==
    /\ UiFree
    /\ NextSession(s)
    /\ self' = [self EXCEPT !["insert"].language = get_temper_language(syntax)]
    /\ status' = Status("Temper: Loading snippets...", "")
    /\ \E w \in Refreshes : refresh_snippet_cache(w, Callback("show_panel", s), TRUE)
    /\ sess' = [sess EXCEPT ![s].mode = "insert", ![s].stage = "loading"]
    /\ UNCHANGED <<cache, fetched, invoked, origin, finished, ui_queue, queued, left,
                   mergeVars, viewVars, cur, buffer, ui_busy, out_panel, edits>>

HasLanguage(r, language) ==
    /\ "languages" \in DOMAIN r
    /\ \E i \in DOMAIN r.languages : r.languages[i] = language

\* A variant of the filter that keeps an empty restriction, for comparison.
FilterByLanguage_strict(all_snippets, language) ==
    IF language = NoLanguage THEN all_snippets
    ELSE LET Speaks(r) == HasLanguage(r, language)
         IN SelectSeq(all_snippets, Speaks)

\* The filter of lines 234-240 on the merged view.
FilterByLanguage(all_snippets, language) ==
    IF language = NoLanguage THEN all_snippets
    ELSE LET Speaks(r) == HasLanguage(r, language)
             filtered == SelectSeq(all_snippets, Speaks)
         IN IF filtered # <<>> THEN filtered ELSE all_snippets

\* TemperSearchInsertCommand's show_panel from get_all_snippets' read of
\* the cloud tier on.
TemperSearchInsertCommand_show_panel(s) ==
    /\ ui_busy.on /\ ui_busy.s = s
    /\ sess[s].mode = "insert"
    /\ LET all_snippets == get_all_snippets(ui_busy.local, cache.cloud)
       IN IF all_snippets = <<>>
          THEN /\ status' = Status("Temper: No snippets available", "")
               /\ sess' = [sess EXCEPT ![s].stage = "empty",
                                       ![s].view = [done |-> TRUE, value |-> all_snippets]]
               /\ UNCHANGED self
          ELSE LET results == FilterByLanguage(all_snippets, self["insert"].language)
               IN /\ self' = [self EXCEPT !["insert"].results = results]
                  /\ status' = Status("", "")
                  /\ sess' = [sess EXCEPT
                                  ![s].stage = "panel",
                                  ![s].shown = Len(results),
                                  ![s].listed = results,
                                  ![s].view = [done |-> TRUE, value |-> all_snippets]]
    /\ ui_busy' = [on |-> FALSE, s |-> 0, local |-> <<>>]
    /\ UNCHANGED <<cache, pc, inc, cb, fetched, invoked, origin, finished, ui_queue,
                   queued, left, mergeVars, viewVars, cur, buffer, out_panel, edits>>

\* TemperSearchInsertCommand.on_select: the slug picked is handed to the
\* thread as its argument.
TemperSearchInsertCommand_on_select(s, index) ==
    /\ UiFree
    /\ sess[s].stage = "panel"
    /\ sess[s].mode = "insert"
    /\ index < sess[s].shown
    /\ LET results == self["insert"].results
       IN IF index < 0
          THEN /\ status' = Status("", "")
               /\ sess' = [sess EXCEPT ![s].stage = "cancelled", ![s].dismissed = TRUE]
          ELSE IF index >= Len(results)
          THEN /\ sess' = [sess EXCEPT ![s].stage = "select_raised"]
               /\ UNCHANGED status
          ELSE /\ sess' = [sess EXCEPT ![s].stage = "thread",
                                       ![s].slug = results[index + 1].slug]
               /\ UNCHANGED status
    /\ UNCHANGED <<cache, pc, inc, cb, fetched, invoked, origin, finished, ui_queue,
                   queued, left, mergeVars, viewVars, cur, buffer, self, ui_busy, out_panel,
                   edits>>

Truthy(snippet) == ~snippet.none /\ snippet.truthy

\* fetch_and_insert from line 279 on, snippet being what the fetches gave
\* and infos the info invocations made: the failure status, called from the
\* worker thread itself; else snippet.get, which raises AttributeError on a
\* value that is no dict; else the two callbacks handed to set_timeout.
fetch_and_insert_finish(s, snippet, infos) ==
    IF ~Truthy(snippet)
    THEN /\ status' = StatusFromWorker("Failed to fetch snippet: {0}", sess[s].slug)
         /\ sess' = [sess EXCEPT ![s].stage = "failed", ![s].infos = infos]
         /\ UNCHANGED ui_queue
    ELSE IF ~snippet.dict
    THEN /\ sess' = [sess EXCEPT ![s].stage = "died", ![s].infos = infos]
         /\ UNCHANGED <<status, ui_queue>>
    ELSE /\ sess' = [sess EXCEPT
                        ![s].stage = "insert_queued", ![s].infos = infos,
                        ![s].code = IF snippet.code.has THEN snippet.code.text ELSE <<>>]
         /\ ui_queue' = ui_queue \o <<Callback("insert_text", s),
                                       Callback("inserted_status", s)>>
         /\ UNCHANGED status

InfoCall(language, snippet) == [language |-> language, snippet |-> snippet]

\* A variant of the first fetch that tries "javascript" after every fetch
\* that gave nothing, whatever the language, for comparison.
fetch_and_insert_first_always_retry(s, proc) ==
    /\ sess[s].stage = "thread"
    /\ sess[s].mode = "insert"
    /\ LET language == self["insert"].language
           snippet == get_snippet_info(proc)
           infos == <<InfoCall(language, snippet)>>
       IN IF ~Truthy(snippet)
          THEN /\ sess' = [sess EXCEPT ![s].stage = "retry", ![s].infos = infos]
               /\ UNCHANGED <<status, ui_queue>>
          ELSE fetch_and_insert_finish(s, snippet, infos)
    /\ UNCHANGED <<cache, pc, inc, cb, fetched, invoked, origin, finished, queued,
                   left, mergeVars, viewVars, cur, buffer, self, ui_busy, out_panel, edits>>

\* fetch_and_insert, lines 275-277: the fetch under self.language, and the
\* test for the second one.
fetch_and_insert_first(s, proc) ==
    /\ sess[s].stage = "thread"
    /\ sess[s].mode = "insert"
    /\ LET language == self["insert"].language
           snippet == get_snippet_info(proc)
           infos == <<InfoCall(language, snippet)>>
       IN IF ~Truthy(snippet) /\ language # NoLanguage /\ language # "javascript"
          THEN /\ sess' = [sess EXCEPT ![s].stage = "retry", ![s].infos = infos]
               /\ UNCHANGED <<status, ui_queue>>
          ELSE fetch_and_insert_finish(s, snippet, infos)
    /\ UNCHANGED <<cache, pc, inc, cb, fetched, invoked, origin, finished, queued,
                   left, mergeVars, viewVars, cur, buffer, self, ui_busy, out_panel, edits>>

\* fetch_and_insert, line 278: the fetch under "javascript".
fetch_and_insert_second(s, proc) ==
    /\ sess[s].stage = "retry"
    /\ LET snippet == get_snippet_info(proc)
       IN fetch_and_insert_finish(s, snippet,
                                  Append(sess[s].infos, InfoCall("javascript", snippet)))
    /\ UNCHANGED <<cache, pc, inc, cb, fetched, invoked, origin, finished, queued,
                   left, mergeVars, viewVars, cur, buffer, self, ui_busy, out_panel, edits>>

\* TemperInsertTextCommand.run on a view whose selection holds the regions
\* sel: the text goes in at the start of each.
TemperInsertTextCommand_run(buf, sel, text) ==
    IF sel.has THEN InsertAt(buf, Min(Begin(sel), Len(buf)), text) ELSE buf

\* The first lambda of fetch_and_insert on the UI context.
insert_text(s, sel) ==
    /\ UiFree
    /\ ui_queue # <<>> /\ Head(ui_queue) = Callback("insert_text", s)
    /\ ui_queue' = Tail(ui_queue)
    /\ buffer' = TemperInsertTextCommand_run(buffer, sel, sess[s].code)
    /\ edits' = Append(edits, [s |-> s, mode |-> "insert", region |-> sel,
                                text |-> sess[s].code])
    /\ sess' = [sess EXCEPT ![s].stage = "inserted"]
    /\ UNCHANGED <<cache, pc, inc, cb, fetched, invoked, origin, finished, queued,
                   status, left, mergeVars, viewVars, cur, self, ui_busy, out_panel>>

\* The second lambda of fetch_and_insert on the UI context.
inserted_status(s) ==
    /\ UiFree
    /\ ui_queue # <<>> /\ Head(ui_queue) = Callback("inserted_status", s)
    /\ ui_queue' = Tail(ui_queue)
    /\ status' = Status("Temper: Inserted {0}", sess[s].slug)
    /\ sess' = [sess EXCEPT ![s].stage = "applied"]
    /\ UNCHANGED <<cache, pc, inc, cb, fetched, invoked, origin, finished, queued,
                   left, mergeVars, viewVars, cur, buffer, self, ui_busy, out_panel, edits>>

\* Insertion sessions in a view of any syntax; the tool's list and search
\* replies name the languages of their records.
Syntaxes == {"Plain Text", "Python", "TypeScript"}
PythonA == [slug |-> "a", title |-> "t", languages |-> <<"python">>]
JavascriptB == [slug |-> "b", title |-> "t", languages |-> <<"javascript">>]
InsertListOutcomes == {ProcStdout(TextResults(items)) : items \in {<<>>, <<PythonA>>}}
InsertSearchOutcomes ==
    {ProcStdout(TextResults(items)) : items \in {<<>>, <<JavascriptB>>}}
InsertInfoOutcomes ==
    {ProcStdout(TextNotJson), ProcStdout(InfoValue(TRUE, FALSE, NoCode)),
     ProcStdout(InfoValue(FALSE, TRUE, NoCode)),
     ProcStdout(InfoValue(TRUE, TRUE, Code(<<"c">>)))}
InsertSelections == {NoSel, Region(1, 1)}

InitInsert == InitRefresh /\ InitMergeIdle /\ InitSessions /\ syntax \in Syntaxes
    /\ file_name = NoFile

NextInsert ==
    \/ \E s \in Sessions : TemperSearchInsertCommand_run(s)
    \/ \E w \in Refreshes : do_refresh_begin(w)
    \/ \E w \in Refreshes, proc \in InsertListOutcomes : do_refresh_list(w, proc)
    \/ \E w \in Refreshes, proc \in InsertSearchOutcomes : do_refresh_search(w, proc)
    \/ \E w \in Refreshes : do_refresh_finish(w)
    \/ \E w \in Refreshes : do_refresh_notify(w)
    \/ \E s \in Sessions : show_panel_read_local(s)
    \/ \E s \in Sessions : TemperSearchInsertCommand_show_panel(s)
    \/ \E s \in Sessions, index \in 0 .. MaxResults * 2 : on_highlight(s, index)
    \/ \E s \in Sessions, index \in -1 .. MaxResults * 2 :
           TemperSearchInsertCommand_on_select(s, index)
    \/ \E s \in Sessions, proc \in InsertInfoOutcomes : fetch_and_insert_first(s, proc)
    \/ \E s \in Sessions, proc \in InsertInfoOutcomes : fetch_and_insert_second(s, proc)
    \/ \E s \in Sessions, sel \in InsertSelections : insert_text(s, sel)
    \/ \E s \in Sessions : inserted_status(s)

SpecInsert == InitInsert /\ [][NextInsert]_vars

\* ------------------------------------------ sessions of all four commands
\* Every list-based command in one view, with few inputs each: one
\* selection, one record per tier, a run that succeeds, fails or prints no
\* object, an info fetch that finds the snippet, finds nothing or prints no
\* object.
CommandSelections == {NoSel, Region(0, 1)}
CommandListOutcomes == {ProcStdout(TextResults(items)) : items \in {<<>>, <<PythonA>>}}
CommandRunOutcomes ==
    {ProcStdout(TextNonObject),
     ProcStdout(TextPayload([success |-> TRUE, output |-> <<"o">>, error |-> "absent"])),
     ProcStdout(TextPayload([success |-> FALSE, output |-> <<>>, error |-> "tool error"]))}
CommandInfoOutcomes ==
    {ProcNotFound, ProcStdout(InfoValue(FALSE, TRUE, NoCode)),
     ProcStdout(InfoValue(TRUE, TRUE, Code(<<"c">>)))}

CommandModes == {"replace", "show_output"}

InitCommands == InitRefresh /\ InitMergeIdle /\ InitSessions /\ syntax = "Python"
    /\ file_name = NoFile

NextCommands ==
    \/ \E s \in Sessions, mode \in CommandModes, sel \in CommandSelections :
           TemperRunBaseCommand_run(s, mode, sel)
    \/ \E s \in Sessions : TemperSearchInsertCommand_run(s)
    \/ \E w \in Refreshes : do_refresh_begin(w)
    \/ \E w \in Refreshes, proc \in CommandListOutcomes : do_refresh_list(w, proc)
    \/ \E w \in Refreshes, proc \in CommandListOutcomes : do_refresh_search(w, proc)
    \/ \E w \in Refreshes : do_refresh_finish(w)
    \/ \E w \in Refreshes : do_refresh_notify(w)
    \/ \E s \in Sessions : show_panel_read_local(s)
    \/ \E s \in Sessions : show_panel_present(s)
    \/ \E s \in Sessions : TemperSearchInsertCommand_show_panel(s)
    \/ \E s \in Sessions : on_highlight(s, 0)
    \/ \E s \in Sessions, index \in -1 .. 0 : on_select(s, index)
    \/ \E s \in Sessions, index \in -1 .. 0 : TemperSearchInsertCommand_on_select(s, index)
    \/ \E s \in Sessions : run_and_apply_call(s)
    \/ \E s \in Sessions, proc \in CommandRunOutcomes : run_and_apply_return(s, proc)
    \/ \E s \in Sessions : error_status(s)
    \/ \E s \in Sessions : do_apply(s)
    \/ \E s \in Sessions : show_output(s)
    \/ \E s \in Sessions, proc \in CommandInfoOutcomes : fetch_and_insert_first(s, proc)
    \/ \E s \in Sessions, proc \in CommandInfoOutcomes : fetch_and_insert_second(s, proc)
    \/ \E s \in Sessions : insert_text(s, Region(1, 1))
    \/ \E s \in Sessions : inserted_status(s)

SpecCommands == InitCommands /\ [][NextCommands]_vars

\* ------------------------------------------------- dismissing the list
\* C12: when the user dismisses the list (index below 0) the session clears
\* the status and ends with no worker thread started: no info or run
\* invocation is made for it, and it never modifies the buffer or the
\* output panel; nothing moves the session afterwards.
C12_DismissEndsSession ==
    /\ [](\A s \in Sessions :
              sess[s].dismissed =>
                  /\ sess[s].stage = "cancelled"
                  /\ sess[s].ran = "none" /\ sess[s].infos = <<>>
                  /\ EditsOf(s) = {} /\ out_panel.by # s
                  /\ \A i \in DOMAIN ui_queue : ui_queue[i].s # s)
    /\ [][\A s \in Sessions :
              /\ (~sess[s].dismissed /\ sess'[s].dismissed) =>
                     /\ sess[s].stage = "panel"
                     /\ status' = Status("", "")
                     /\ UNCHANGED <<buffer, ui_queue, out_panel, edits>>
              /\ sess[s].dismissed => sess'[s] = sess[s]]_vars

\* One session was dismissed and the other went on to change the buffer.
C12_Witness ==
    \E s, t \in Sessions :
        /\ sess[s].dismissed
        /\ sess[t].stage \in {"applied", "inserted"}
        /\ EditsOf(t) # {}

\* ------------------------------------------------ the snippet-detail fetch
\* A fetch gave nothing: None, or a document Python takes for false.
Nothing(snippet) == ~Truthy(snippet)
ActiveLanguage == get_temper_language(syntax)

\* The invocations an insertion session has made, and what became of what
\* they gave.
FetchChain ==
    \A s \in Sessions :
        LET infos == sess[s].infos
            Fetched == sess[s].stage \in {"failed", "died", "insert_queued", "inserted", "applied"}
        IN /\ Len(infos) <= 2
           /\ infos # <<>> => infos[1].language = ActiveLanguage
           /\ Len(infos) = 2 =>
                  /\ infos[2].language = "javascript"
                  /\ Nothing(infos[1].snippet)
                  /\ ActiveLanguage \notin {NoLanguage, "javascript"}
           /\ (sess[s].mode = "insert" /\ Fetched /\ Nothing(infos[1].snippet)
                   /\ ActiveLanguage \notin {NoLanguage, "javascript"}) => Len(infos) = 2
           /\ (Len(infos) = 2 /\ infos[2].snippet.dict /\ Truthy(infos[2].snippet)) =>
                  /\ sess[s].stage \in {"insert_queued", "inserted", "applied"}
                  /\ sess[s].code = infos[2].snippet.code.text
                  /\ \A i \in EditsOf(s) : edits[i].text = infos[2].snippet.code.text
                  /\ sess[s].stage # "insert_queued" => EditsOf(s) # {}
           /\ (infos # <<>> /\ \A i \in DOMAIN infos : Nothing(infos[i].snippet)) =>
                  /\ Fetched => sess[s].stage = "failed"
                  /\ EditsOf(s) = {}
                  /\ \A i \in DOMAIN ui_queue : ui_queue[i].s # s

\* C13: an insertion session makes at most two info invocations, the first
\* under the active language, a second under "javascript" only when the
\* first gave nothing and the active language is set and is not
\* "javascript".  A record from the second fetch after nothing from the
\* first is the one inserted; nothing from both ends the session with the
\* failure status and no insertion.
C13_InfoFallbackChain ==
    /\ []FetchChain
    /\ [][\A s \in Sessions :
              (sess[s].stage # "failed" /\ sess'[s].stage = "failed") =>
                  /\ status'.text = "Failed to fetch snippet: {0}"
                  /\ status'.arg = sess[s].slug
                  /\ UNCHANGED <<buffer, edits, ui_queue>>]_vars

\* A session in a Python view whose first fetch gave nothing and whose
\* second, under "javascript", gave the record whose code was inserted.
C13_Witness ==
    \E s \in Sessions :
        /\ ActiveLanguage = "python"
        /\ Len(sess[s].infos) = 2
        /\ Nothing(sess[s].infos[1].snippet)
        /\ sess[s].infos[2].snippet.code = Code(<<"c">>)
        /\ \E i \in EditsOf(s) : edits[i].text = <<"c">> /\ buffer # InitBuffer

\* ------------------------------------------------------ the list presented
\* Sessions of every command in a view of any syntax, as far as the list
\* they present.
NextPanel ==
    \/ \E s \in Sessions, mode \in Modes : TemperRunBaseCommand_run(s, mode, Region(0, 1))
    \/ \E s \in Sessions : TemperSearchInsertCommand_run(s)
    \/ \E w \in Refreshes : do_refresh_begin(w)
    \/ \E w \in Refreshes, proc \in InsertListOutcomes : do_refresh_list(w, proc)
    \/ \E w \in Refreshes, proc \in InsertSearchOutcomes : do_refresh_search(w, proc)
    \/ \E w \in Refreshes : do_refresh_finish(w)
    \/ \E w \in Refreshes : do_refresh_notify(w)
    \/ \E s \in Sessions : show_panel_read_local(s)
    \/ \E s \in Sessions : show_panel_present(s)
    \/ \E s \in Sessions : TemperSearchInsertCommand_show_panel(s)

SpecPanel == InitInsert /\ [][NextPanel]_vars

\* The records of a view whose languages contain the tag.
Restricted(view, tag) ==
    LET Tagged(r) == "languages" \in DOMAIN r /\ tag \in {r.languages[i] : i \in DOMAIN r.languages}
    IN SelectSeq(view, Tagged)
RestrictedOrAll(view, tag) ==
    IF Restricted(view, tag) = <<>> THEN view ELSE Restricted(view, tag)
Presented(s) == sess[s].stage = "panel"

\* C14 as claimed: in a view with a language tag every session presents
\* the merged view restricted to the records of that language, or the whole
\* merged view when the restriction is empty.
C14_EveryListFiltered ==
    \A s \in Sessions :
        (Presented(s) /\ ActiveLanguage # NoLanguage) =>
            sess[s].listed = RestrictedOrAll(sess[s].view.value, ActiveLanguage)

\* C14 as amended: an insertion session presents the restriction, or the
\* whole merged view when the restriction is empty or the view has no
\* language; a snippet-run session presents the whole merged view whatever
\* the language.  No list presented is empty.
C14_InsertListFiltered ==
    \A s \in Sessions :
        /\ Presented(s) =>
               /\ sess[s].listed # <<>>
               /\ sess[s].listed =
                      IF sess[s].mode = "insert" /\ ActiveLanguage # NoLanguage
                      THEN RestrictedOrAll(sess[s].view.value, ActiveLanguage)
                      ELSE sess[s].view.value
        /\ (sess[s].view.done /\ sess[s].view.value # <<>>) => Presented(s)

\* In a Python view with a Python record and a JavaScript record in the
\* merged view, an insertion session lists the Python record alone and a
\* snippet-run session lists both.
C14_Witness ==
    \E s, t \in Sessions :
        /\ ActiveLanguage = "python"
        /\ Presented(s) /\ sess[s].mode = "insert"
        /\ Len(sess[s].view.value) = 2 /\ Len(sess[s].listed) = 1
        /\ Presented(t) /\ sess[t].mode \in Modes
        /\ Len(sess[t].view.value) = 2 /\ Len(sess[t].listed) = 2

\* ------------------------------------------- the current file as a snippet
\* Paths and directories are sequences of characters.  The configuration the
\* tool prints is kept by its snippetsDir entry: missing, null or a string.
MaxMenu == 2
DirAbsent == [kind |-> "absent", text |-> <<>>]
DirNull == [kind |-> "null", text |-> <<>>]
DirStr(text) == [kind |-> "str", text |-> text]
TextConfig(dir) == [t |-> "config", dir |-> dir]

\* os.path.expanduser("~/Snippets"): "S" stands for the name Snippets.
HomeSnippets == <<"/", "h", "/", "S">>

startswith(text, prefix) ==
    Len(prefix) <= Len(text) /\ SubSeq(text, 1, Len(prefix)) = prefix

\* get_snippets_dir: the configuration's snippetsDir ("" when the key is
\* missing, None when it is null); config.get raises AttributeError on a
\* document that is no object; the fallback when the tool gave no output or
\* the output does not decode.
get_snippets_dir(proc) ==
    LET output == run_temper(proc)
        fallback == [raised |-> FALSE, none |-> FALSE, dir |-> HomeSnippets,
                     dialog |-> output.dialog]
    IN IF output.none \/ output.text.t = "empty" THEN fallback
       ELSE LET config == json_loads(output.text)
            IN IF ~config.ok THEN fallback
               ELSE IF config.value.t # "config"
               THEN [raised |-> TRUE, none |-> FALSE, dir |-> <<>>, dialog |-> FALSE]
               ELSE [raised |-> FALSE, none |-> config.value.dir.kind = "null",
                     dir |-> config.value.dir.text, dialog |-> FALSE]

\* is_snippet_file: False without asking the tool when there is no path;
\* else whether the path starts with the directory; str.startswith raises
\* TypeError on None.
is_snippet_file(file_path, proc) ==
    IF file_path = <<>>
    THEN [raised |-> FALSE, value |-> FALSE, invoked |-> FALSE, dialog |-> FALSE]
    ELSE LET snippets_dir == get_snippets_dir(proc)
         IN [raised |-> snippets_dir.raised \/ snippets_dir.none,
             value |-> /\ ~snippets_dir.raised /\ ~snippets_dir.none
                       /\ startswith(file_path, snippets_dir.dir),
             invoked |-> TRUE, dialog |-> snippets_dir.dialog]

LastIndex(text, ch) ==
    LET at == {i \in DOMAIN text : text[i] = ch}
    IN IF at = {} THEN 0 ELSE CHOOSE i \in at : \A j \in at : j <= i
basename(path) == SubSeq(path, LastIndex(path, "/") + 1, Len(path))
\* os.path.splitext(...)[0]: dots that lead the name open no extension.
splitext_root(name) ==
    LET dot == LastIndex(name, ".")
    IN IF dot = 0 \/ (\A i \in 1 .. dot : name[i] = ".") THEN name
       ELSE SubSeq(name, 1, dot - 1)
\* get_slug_from_path; <<>> stands for None and for the empty slug alike
\* (run tests `not slug`).
get_slug_from_path(file_path) ==
    IF file_path = <<>> THEN <<>> ELSE splitext_root(basename(file_path))

Enabled(answer) ==
    IF answer.raised THEN "raised" ELSE IF answer.value THEN "yes" ELSE "no"

\* is_enabled, which Sublime calls on the UI context whenever it shows the
\* command or is about to run it: one spawn of `temper config --json` on
\* that context, unless the view has no file.
Ask(asked, proc) ==
    /\ cur.stage = "idle"
    /\ LET answer == is_snippet_file(file_name, proc)
       IN cur' = [cur EXCEPT
                     !.enabled = Enabled(answer), !.asked = asked,
                     !.config = IF answer.invoked THEN proc ELSE NoProc,
                     !.checks = @ + 1,
                     !.tool_on_ui = IF answer.invoked THEN @ + 1 ELSE @,
                     !.dialog = IF answer.dialog THEN "ui" ELSE @]
    /\ UNCHANGED <<cache, pc, inc, cb, fetched, invoked, origin, finished, ui_queue,
                   queued, status, left, mergeVars, viewVars, buffer, self, sess,
                   ui_busy, out_panel, edits>>

is_enabled(proc) ==
    /\ cur.checks < MaxMenu
    /\ Ask("is_enabled", proc)

\* is_visible returns self.is_enabled().
is_visible(proc) ==
    /\ cur.checks < MaxMenu
    /\ Ask("is_visible", proc)

\* TemperRunCurrentSnippetCommand.run, which Sublime calls when is_enabled
\* answered True.
TemperRunCurrentSnippetCommand_run(sel) ==
    /\ cur.enabled = "yes"
    /\ cur.stage = "idle"
    /\ LET slug == get_slug_from_path(file_name)
       IN IF slug = <<>>
          THEN /\ status' = Status("Temper: No file open", "")
               /\ cur' = [cur EXCEPT !.stage = "no_file"]
          ELSE /\ status' = Status("Temper: Running {0}...", slug)
               /\ cur' = [cur EXCEPT
                             !.stage = "thread", !.slug = slug,
                             !.stdin = IF sel.has /\ ~Empty(sel)
                                       THEN Substr(buffer, sel) ELSE <<>>]
    /\ UNCHANGED <<cache, pc, inc, cb, fetched, invoked, origin, finished, ui_queue,
                   queued, left, mergeVars, viewVars, buffer, self, sess, ui_busy,
                   out_panel, edits>>

\* run_and_show on its thread: run_temper's error dialog opens on this
\* thread; result.get raises AttributeError on a result that is no dict; a
\* result without success queues the status message and then the panel.
run_and_show(proc) ==
    /\ cur.stage = "thread"
    /\ LET result == run_snippet(proc)
           dialog == IF run_temper(proc).dialog THEN "worker" ELSE cur.dialog
       IN IF ~result.dict
          THEN /\ cur' = [cur EXCEPT !.stage = "died", !.ran = proc,
                                     !.result = result, !.dialog = dialog]
               /\ UNCHANGED ui_queue
          ELSE IF ~result.success
          THEN /\ cur' = [cur EXCEPT
                             !.stage = "error_queued", !.ran = proc,
                             !.result = result, !.dialog = dialog,
                             !.msg = IF result.error = "absent"
                                     THEN "Unknown error" ELSE result.error]
               /\ ui_queue' = ui_queue \o <<Callback("current_error_status", 0),
                                            Callback("current_show_error", 0)>>
          ELSE /\ cur' = [cur EXCEPT !.stage = "output_queued", !.ran = proc,
                                     !.result = result, !.dialog = dialog]
               /\ ui_queue' = Append(ui_queue, Callback("current_show_output", 0))
    /\ UNCHANGED <<cache, pc, inc, cb, fetched, invoked, origin, finished, queued,
                   status, left, mergeVars, viewVars, buffer, self, sess, ui_busy,
                   out_panel, edits>>

\* The lambda of lines 510-513 on the UI context.
current_error_status ==
    /\ UiFree
    /\ ui_queue # <<>> /\ Head(ui_queue) = Callback("current_error_status", 0)
    /\ ui_queue' = Tail(ui_queue)
    /\ status' = Status("Error: {0}", cur.msg)
    /\ cur' = [cur EXCEPT !.stage = "error_shown"]
    /\ UNCHANGED <<cache, pc, inc, cb, fetched, invoked, origin, finished, queued,
                   left, mergeVars, viewVars, buffer, self, sess, ui_busy,
                   out_panel, edits>>

\* show_output on the UI context, with the error's text (lines 515-518) or
\* with the run's output (line 521).
current_show_output ==
    /\ UiFree
    /\ ui_queue # <<>>
    /\ Head(ui_queue) \in {Callback("current_show_error", 0),
                           Callback("current_show_output", 0)}
    /\ ui_queue' = Tail(ui_queue)
    /\ out_panel' =
           IF Head(ui_queue).kind = "current_show_error"
           THEN [shown |-> TRUE, by |-> 0, slug |-> cur.slug, output |-> <<>>,
                 error |-> cur.msg]
           ELSE [shown |-> TRUE, by |-> 0, slug |-> cur.slug,
                 output |-> cur.result.output, error |-> "none"]
    /\ status' = Status("Temper: {0}", cur.slug)
    /\ cur' = [cur EXCEPT !.stage = "shown"]
    /\ UNCHANGED <<cache, pc, inc, cb, fetched, invoked, origin, finished, queued,
                   left, mergeVars, viewVars, buffer, self, sess, ui_busy, edits>>

\* The files a view may show and what `temper config --json` may do.
SnippetsDir == <<"/", "s">>
FilePaths ==
    {NoFile,
     <<"/", "s", "/", "a", ".", "j">>,
     <<"/", "s", "2", "/", "a">>,
     <<"/", "t", "/", "a">>,
     <<"/", "h", "/", "S", "/", "a">>}
ConfigDirs ==
    {DirAbsent, DirNull, DirStr(<<>>), DirStr(SnippetsDir), DirStr(SnippetsDir \o <<"/">>)}
ConfigOutcomes ==
    {ProcNotFound, ProcStdout(TextEmpty), ProcStdout(TextNotJson), ProcStdout(TextNonObject)}
        \cup {ProcStdout(TextConfig(dir)) : dir \in ConfigDirs}
\* What a run may print: every trimmed text of up to MaxRaw chunks, and two
\* texts of more than ErrorPrefix characters.
MaxRaw == 3
RawChunks ==
    {"?", "\n", "{", "[1]", "{\"success\":true,\"output\":\"o\"}",
     "{\"success\":false,\"output\":\"\",\"error\":\"tool error\"}"}
Trimmed(raw) == raw # <<>> /\ raw[1] # "\n" /\ raw[Len(raw)] # "\n"
RawTexts ==
    {raw \in SeqsUpTo(RawChunks, MaxRaw) : Trimmed(raw)}
        \cup {Repeat("?", ErrorPrefix + 1), <<"{">> \o Repeat("?", ErrorPrefix)}
CurrentRunOutcomes ==
    {ProcNotFound, ProcFault, ProcStdout(TextEmpty)}
        \cup {ProcStdout(TextRaw(raw)) : raw \in RawTexts}

InitCurrent ==
    /\ InitRefresh /\ InitMergeIdle /\ InitSessions
    /\ syntax = "Plain Text"
    /\ file_name \in FilePaths

NextCurrent ==
    \/ \E proc \in ConfigOutcomes : is_enabled(proc)
    \/ \E proc \in ConfigOutcomes : is_visible(proc)
    \/ \E sel \in CommandSelections : TemperRunCurrentSnippetCommand_run(sel)
    \/ \E proc \in CurrentRunOutcomes : run_and_show(proc)
    \/ current_error_status
    \/ current_show_output

SpecCurrent == InitCurrent /\ [][NextCurrent]_vars

OutOfDir(dir) == IF dir.kind = "str" THEN dir.text ELSE <<>>
\* The directory the last gate evaluation was configured with: the
\* configuration's snippetsDir, or the fallback when there is no
\* configuration.
Configured ==
    IF cur.config.kind = "stdout" /\ cur.config.text.t = "config"
    THEN OutOfDir(cur.config.text.dir)
    ELSE HomeSnippets
\* A path is under a directory when it continues the directory's path
\* after a separator.
Under(path, dir) ==
    /\ dir # <<>>
    /\ \/ startswith(path, dir \o <<"/">>)
       \/ dir[Len(dir)] = "/" /\ startswith(path, dir) /\ Len(path) > Len(dir)
Asked == cur.asked # "none"

\* C15 as claimed: whatever the configuration says (a directory, an empty or
\* missing snippetsDir, no configuration at all), is_snippet_file answers
\* False for a path that is not under the configured directory.
C15_OutsideIsNoSnippetFile ==
    (Asked /\ ~Under(file_name, Configured)) => cur.enabled = "no"

\* The trimmed output of the run the current-file session made, and whether
\* a text decodes as one JSON document.
Ran == cur.ran # NoProc
Raw == IF cur.ran.kind = "stdout" THEN RawText(cur.ran.text) ELSE <<>>
Decodes(raw) == Len(raw) = 1 /\ raw[1] \in JsonDocuments
OpensWithBrace(raw) == raw[1] = "{" \/ raw[1] \in JsonObjects
FirstChars(raw, n) == [i \in 1 .. (IF Len(raw) < n THEN Len(raw) ELSE n) |-> raw[i]]

\* C16: run_snippet gives the failure record "Failed to run temper" on an
\* empty output, the decoded payload on an output that decodes as a whole,
\* the first line's payload on an output that does not decode, opens with a
\* brace and has a first line that decodes, and else the record with
\* success false, the output itself and "Invalid response: " followed by
\* the first 200 characters of the output.
C16_RunSnippetMapping ==
    Ran =>
        /\ Raw = <<>> =>
               /\ cur.result.dict /\ ~cur.result.success
               /\ cur.result.output = <<>>
               /\ cur.result.error = "Failed to run temper"
        /\ (Raw # <<>> /\ Decodes(Raw)) => cur.result = DocValue(Raw[1])
        /\ (Raw # <<>> /\ ~Decodes(Raw) /\ OpensWithBrace(Raw)
                /\ Decodes(first_line(Raw))) =>
               cur.result = DocValue(Raw[1])
        /\ (Raw # <<>> /\ ~Decodes(Raw)
                /\ ~(OpensWithBrace(Raw) /\ Decodes(first_line(Raw)))) =>
               /\ cur.result.dict /\ ~cur.result.success
               /\ cur.result.output = Raw
               /\ cur.result.error = "Invalid response: {0}"
               /\ cur.result.shown = FirstChars(Raw, 200)

\* A run printed more than 200 characters that decode to nothing, and the
\* error of its result shows the first 200 of them.
C16_Witness ==
    /\ Ran /\ Len(Raw) > 200 /\ ~Decodes(Raw)
    /\ cur.result.error = "Invalid response: {0}"
    /\ Len(cur.result.shown) = 200 /\ cur.result.output = Raw

\* C17 as claimed: whatever the tool does, list_snippets, search_snippets,
\* get_snippet_info and run_snippet hand their caller a value of the shape
\* it expects and raise nothing, so that no worker thread (of a refresh, of
\* a session's run or fetch, of the current-file run) ends on an exception.
C17_NoWorkerDies ==
    /\ \A w \in Refreshes : pc[w] # "died"
    /\ \A s \in Sessions : sess[s].stage # "died"
    /\ cur.stage # "died"

\* The blocking notifications (sublime.error_message inside run_temper) that
\* opened on a worker thread: in a refresh that did not find the executable,
\* or in the current-file run.
DialogOnWorker ==
    \/ \E w \in Refreshes : \E i \in DOMAIN invoked[w] : ~invoked[w][i].found
    \/ cur.dialog = "worker"

\* C18 as claimed: every status message and every blocking notification is
\* made on the UI context, never directly by a worker thread, on failure
\* paths too.
C18_UiCallsOnUiContext == status.thread = "ui" /\ ~DialogOnWorker

\* C19 as claimed: the UI context never spawns the tool and never waits for
\* it; every invocation (list, search, info, run, config) is made by a
\* worker thread.
C19_NoToolOnUiContext == cur.tool_on_ui = 0

\* ------------------------------------------------ the life of a session
\* Sessions of the list-based commands from launch to end, with the
\* scheduling the platform gives: every thread that can take a step and
\* every callback queued on the UI context eventually runs, and the user
\* eventually answers a list that is shown.
LifeListOutcomes == {ProcStdout(TextResults(items)) : items \in {<<>>, <<PythonA>>}}
LifeSearchOutcomes == {ProcStdout(TextResults(<<>>)), ProcStdout(TextNonObject)}
LifeRunOutcomes ==
    {ProcStdout(TextNonObject),
     ProcStdout(TextPayload([success |-> TRUE, output |-> <<"o">>, error |-> "absent"])),
     ProcStdout(TextPayload([success |-> FALSE, output |-> <<>>, error |-> "tool error"]))}
LifeInfoOutcomes ==
    {ProcNotFound, ProcStdout(InfoValue(FALSE, TRUE, NoCode)),
     ProcStdout(InfoValue(TRUE, TRUE, Code(<<"c">>)))}

InitLife ==
    /\ InitRefresh /\ InitMergeIdle /\ InitSessions
    /\ syntax = "Python"
    /\ file_name = NoFile

Launch ==
    \/ \E s \in Sessions, mode \in CommandModes, sel \in CommandSelections :
           TemperRunBaseCommand_run(s, mode, sel)
    \/ \E s \in Sessions : TemperSearchInsertCommand_run(s)

WorkerStep ==
    \/ \E w \in Refreshes : do_refresh_begin(w)
    \/ \E w \in Refreshes, proc \in LifeListOutcomes : do_refresh_list(w, proc)
    \/ \E w \in Refreshes, proc \in LifeSearchOutcomes : do_refresh_search(w, proc)
    \/ \E w \in Refreshes : do_refresh_finish(w)
    \/ \E w \in Refreshes : do_refresh_notify(w)
    \/ \E s \in Sessions : run_and_apply_call(s)
    \/ \E s \in Sessions, proc \in LifeRunOutcomes : run_and_apply_return(s, proc)
    \/ \E s \in Sessions, proc \in LifeInfoOutcomes : fetch_and_insert_first(s, proc)
    \/ \E s \in Sessions, proc \in LifeInfoOutcomes : fetch_and_insert_second(s, proc)

UiStep ==
    \/ \E s \in Sessions : show_panel_read_local(s)
    \/ \E s \in Sessions : show_panel_present(s)
    \/ \E s \in Sessions : TemperSearchInsertCommand_show_panel(s)
    \/ \E s \in Sessions : error_status(s)
    \/ \E s \in Sessions : do_apply(s)
    \/ \E s \in Sessions : show_output(s)
    \/ \E s \in Sessions : insert_text(s, Region(1, 1))
    \/ \E s \in Sessions : inserted_status(s)

UserAnswer ==
    \/ \E s \in Sessions, index \in -1 .. 0 : on_select(s, index)
    \/ \E s \in Sessions, index \in -1 .. 0 : TemperSearchInsertCommand_on_select(s, index)

NextLife ==
    \/ Launch
    \/ WorkerStep
    \/ UiStep
    \/ UserAnswer
    \/ \E s \in Sessions : on_highlight(s, 0)

SpecLife ==
    /\ InitLife /\ [][NextLife]_vars
    /\ WF_vars(WorkerStep) /\ WF_vars(UiStep) /\ WF_vars(UserAnswer)

\* The stage of the session state machine a session is in.  A session that
\* has ended is back in Idle; a dismissed one is in Cancelled, its end.
Phase(s) ==
    LET at == sess[s].stage
    IN IF at = "loading" THEN "Loading"
       ELSE IF at = "panel" THEN "Presenting"
       ELSE IF at = "cancelled" THEN "Cancelled"
       ELSE IF at \in {"thread", "running", "retry", "died"} THEN "Dispatching"
       ELSE IF at \in {"error_queued", "apply_queued", "insert_queued", "inserted"}
       THEN "Applying"
       ELSE "Idle"
Launched(s) == sess[s].stage \notin {"new", "aborted"}
Over(s) == Launched(s) /\ Phase(s) \in {"Idle", "Cancelled"}
\* A worker thread of the session ended on an exception: its refresh, or
\* its run or fetch.
WorkerLost(s) ==
    \/ sess[s].stage = "died"
    \/ \E w \in RefreshesOf(s) : pc[w] = "died"

ListedEdges ==
    {<<"Idle", "Loading">>, <<"Loading", "Presenting">>, <<"Presenting", "Cancelled">>,
     <<"Presenting", "Dispatching">>, <<"Dispatching", "Applying">>,
     <<"Applying", "Idle">>}

====
